---- MODULE Spec2Model ----
(***************************************************************************)
(* A model of src/server.js: the startup resolution of the LAN address    *)
(* (getLocalIP), the POST /create-payment-intent route and the POST       *)
(* /webhook route behind the application's middleware chain.              *)
(*                                                                         *)
(* Three specifications share the module:                                  *)
(*   SpecIP      getLocalIP applied to every bounded interface table       *)
(*   SpecCreate  NReq concurrent POST /create-payment-intent requests      *)
(*   SpecWebhook a POST /webhook request through express.json, express.raw *)
(*               and the route handler                                     *)
(***************************************************************************)
EXTENDS Integers, Sequences, FiniteSets, TLC

VARIABLES interfaces, localIP, healthIP,
          creq, cpc, stripeCalls, settled, cresp, clog,
          wreq, wpc, wbody, wparsed, verifierSaw, verified, wresp, wlog

ipVars == <<interfaces, localIP, healthIP>>
createVars == <<creq, cpc, stripeCalls, settled, cresp, clog>>
webhookVars == <<wreq, wpc, wbody, wparsed, verifierSaw, verified, wresp, wlog>>
vars == <<ipVars, createVars, webhookVars>>

(***************************************************************************)
(* Bounds.                                                                 *)
(***************************************************************************)
\* Total number of addresses in an interface table.
MaxAddrs == 2
\* Number of requests in flight at once on /create-payment-intent.
NReq == 2

(***************************************************************************)
(* Strings.  An interface name is the sequence of its characters, an       *)
(* address the sequence of its dot-separated fields, so that toLowerCase,  *)
(* includes and startsWith are computed and not assumed.                   *)
(***************************************************************************)
\* toLowerCase of one character: the upper-case letters of the names used here.
Lower(c) ==
  CASE c = "E" -> "e" [] c = "F" -> "f" [] c = "M" -> "m" [] c = "N" -> "n"
    [] c = "P" -> "p" [] c = "V" -> "v" [] c = "W" -> "w" [] c = "L" -> "l"
    [] OTHER -> c

toLowerCase(s) == [i \in 1..Len(s) |-> Lower(s[i])]

includes(s, pattern) ==
  \E i \in 0..(Len(s) - Len(pattern)) :
    SubSeq(s, i + 1, i + Len(pattern)) = pattern

\* address.startsWith('a.b.'): the prefix ends in a dot, so it matches whole
\* leading fields of the dotted quad.
startsWith(address, prefix) ==
  /\ Len(prefix) <= Len(address)
  /\ SubSeq(address, 1, Len(prefix)) = prefix

ignorePatterns ==
  << <<"v","m","w","a","r","e">>,
     <<"v","i","r","t","u","a","l","b","o","x">>,
     <<"w","i","n","t","u","n">>,
     <<"r","a","d","m","i","n">>,
     <<"v","p","n">>,
     <<"t","e","r","e","d","o">>,
     <<"l","o","o","p","b","a","c","k">> >>

ignoreIPs == << <<"169","254">>, <<"26">>, <<"192","168","56">> >>

mainNetworkPrefix == <<"192","168","0">>
ethernetPattern == <<"e","t","h","e","r","n","e","t">>
localhost == <<"localhost">>

\* Interface names of the bounded tables.
IfaceNames ==
  { <<"W","i","-","F","i">>,
    <<"E","t","h","e","r","n","e","t">>,
    <<"v","E","t","h","e","r","n","e","t">>,
    <<"V","M","w","a","r","e">>,
    <<"M","y","V","P","N">>,
    <<"w","l","a","n","0">> }

Addr(family, internal, address) ==
  [family |-> family, internal |-> internal, address |-> address]

\* Addresses of the bounded tables.
AddrPool ==
  { Addr("IPv4", FALSE, <<"192","168","0","10">>),
    Addr("IPv4", FALSE, <<"192","168","0","11">>),
    Addr("IPv4", FALSE, <<"10","0","0","5">>),
    Addr("IPv4", FALSE, <<"172","16","0","9">>),
    Addr("IPv4", FALSE, <<"169","254","1","1">>),
    Addr("IPv4", FALSE, <<"26","1","2","3">>),
    Addr("IPv4", FALSE, <<"192","168","56","1">>),
    Addr("IPv4", TRUE,  <<"127","0","0","1">>),
    Addr("IPv6", FALSE, <<"fe80::1">>) }

(***************************************************************************)
(* os.networkInterfaces(): interface entries in enumeration order, each    *)
(* with its name and its addresses in order.  A flat list of (name,        *)
(* address) pairs whose equal names are adjacent is grouped into entries.  *)
(***************************************************************************)
FlatTables ==
  UNION { [1..n -> [name : IfaceNames, addr : AddrPool]] : n \in 0..MaxAddrs }

Grouped(f) ==
  \A i, j \in 1..Len(f) :
    (i < j /\ f[i].name = f[j].name) => \A k \in i..j : f[k].name = f[i].name

RECURSIVE Nest(_)
Nest(f) ==
  IF f = <<>> THEN <<>>
  ELSE LET rest == Nest(Tail(f))
           a == Head(f)
       IN IF rest # <<>> /\ rest[1].name = a.name
          THEN <<[name |-> a.name, addrs |-> <<a.addr>> \o rest[1].addrs]>>
               \o Tail(rest)
          ELSE <<[name |-> a.name, addrs |-> <<a.addr>>]>> \o rest

InterfaceTables == { Nest(f) : f \in { g \in FlatTables : Grouped(g) } }

(***************************************************************************)
(* getLocalIP                                                              *)
(***************************************************************************)
\* ignorePatterns.some(pattern => name.toLowerCase().includes(pattern))
NameIgnored(name) ==
  \E p \in 1..Len(ignorePatterns) : includes(toLowerCase(name), ignorePatterns[p])

\* A mutant: the test for internal addresses is lost.
AddrPassesNoInternal(addr) ==
  /\ addr.family = "IPv4"
  /\ ~\E p \in 1..Len(ignoreIPs) : startsWith(addr.address, ignoreIPs[p])

\* addr.family === 'IPv4' && !addr.internal && !ignoreIPs.some(...)
AddrPasses(addr) ==
  /\ addr.family = "IPv4"
  /\ ~addr.internal
  /\ ~\E p \in 1..Len(ignoreIPs) : startsWith(addr.address, ignoreIPs[p])

\* priority: isMainNetwork ? 10 : (isEthernet ? 5 : 1)
Priority(name, addr) ==
  IF startsWith(addr.address, mainNetworkPrefix) THEN 10
  ELSE IF includes(toLowerCase(name), ethernetPattern) THEN 5
  ELSE 1

\* The inner loop over one interface's addresses.
RECURSIVE AddrCandidates(_, _)
AddrCandidates(name, addrs) ==
  IF addrs = <<>> THEN <<>>
  ELSE (IF AddrPasses(Head(addrs))
        THEN <<[name |-> name, address |-> Head(addrs).address,
                priority |-> Priority(name, Head(addrs))]>>
        ELSE <<>>)
       \o AddrCandidates(name, Tail(addrs))

\* The outer loop over Object.entries(interfaces).
RECURSIVE Candidates(_)
Candidates(table) ==
  IF table = <<>> THEN <<>>
  ELSE (IF NameIgnored(Head(table).name) THEN <<>>
        ELSE AddrCandidates(Head(table).name, Head(table).addrs))
       \o Candidates(Tail(table))

\* A mutant: an element is placed before the elements of equal priority.
InsertBeforeEqual(sorted, c) ==
  LET k == Cardinality({i \in 1..Len(sorted) : sorted[i].priority > c.priority})
  IN SubSeq(sorted, 1, k) \o <<c>> \o SubSeq(sorted, k + 1, Len(sorted))

\* One step of the stable sort by (a, b) => b.priority - a.priority: the
\* element goes after every element whose priority is not lower.
Insert(sorted, c) ==
  LET k == Cardinality({i \in 1..Len(sorted) : sorted[i].priority >= c.priority})
  IN SubSeq(sorted, 1, k) \o <<c>> \o SubSeq(sorted, k + 1, Len(sorted))

RECURSIVE SortByPriority(_)
SortByPriority(cands) ==
  IF cands = <<>> THEN <<>>
  ELSE Insert(SortByPriority(SubSeq(cands, 1, Len(cands) - 1)), cands[Len(cands)])

getLocalIP(table) ==
  LET candidates == SortByPriority(Candidates(table))
  IN IF Len(candidates) > 0 THEN candidates[1].address ELSE localhost

(***************************************************************************)
(* Startup and the health check.                                           *)
(***************************************************************************)
Unset == <<"unset">>

Startup ==
  /\ localIP = Unset
  /\ localIP' = getLocalIP(interfaces)
  /\ UNCHANGED <<interfaces, healthIP, createVars, webhookVars>>

\* GET /health answers with ip: localIP.
Health ==
  /\ localIP # Unset
  /\ healthIP' = localIP
  /\ UNCHANGED <<interfaces, localIP, createVars, webhookVars>>

(***************************************************************************)
(* JavaScript values of a JSON request body.  A number is the fraction n/d *)
(* (d > 0), so that a fractional amount is a value of its own.             *)
(***************************************************************************)
Undefined == [t |-> "undefined", n |-> 0, d |-> 1, s |-> ""]
Num(n, d) == [t |-> "number", n |-> n, d |-> d, s |-> ""]
Str(s) == [t |-> "string", n |-> 0, d |-> 1, s |-> s]
Obj(s) == [t |-> "object", n |-> 0, d |-> 1, s |-> s]

NaN == [nan |-> TRUE, n |-> 0, d |-> 1]
Finite(n, d) == [nan |-> FALSE, n |-> n, d |-> d]

\* ToNumber of a string: the numeric literals among the strings used here.
StringToNumber(s) ==
  CASE s = "" -> Finite(0, 1)
    [] s = "0" -> Finite(0, 1)
    [] s = "-5" -> Finite(-5, 1)
    [] s = "10" -> Finite(10, 1)
    [] OTHER -> NaN

\* ToNumber, as the comparison amount <= 0 applies it.
ToNumber(v) ==
  CASE v.t = "number" -> Finite(v.n, v.d)
    [] v.t = "string" -> StringToNumber(v.s)
    [] OTHER -> NaN

\* ToBoolean, as !amount applies it.
Truthy(v) ==
  CASE v.t = "undefined" -> FALSE
    [] v.t = "number" -> v.n # 0
    [] v.t = "string" -> v.s # ""
    [] OTHER -> TRUE

\* amount <= 0: false when ToNumber(amount) is NaN.
LessOrEqualZero(v) == LET x == ToNumber(v) IN ~x.nan /\ x.n <= 0

\* A mutant: only the sign test is kept.
InvalidAmountSignOnly(amount) == LessOrEqualZero(amount)

\* !amount || amount <= 0
InvalidAmount(amount) == ~Truthy(amount) \/ LessOrEqualZero(amount)

\* A positive integer, as the data model requires of an amount.
IsPositiveInteger(v) == v.t = "number" /\ v.n > 0 /\ v.n % v.d = 0

(***************************************************************************)
(* POST /create-payment-intent                                             *)
(***************************************************************************)
Conns == 1..NReq
NoReq == [amount |-> Undefined, currency |-> Undefined, metadata |-> Undefined,
          present |-> FALSE]

Amounts ==
  { Undefined, Num(0, 1), Num(-5, 1), Num(1000, 1), Num(3, 2), Str("abc") }
Currencies == { Undefined, Str("usd") }
Metadatas == { Undefined, Obj("order=42") }

\* The JSON bodies a client sends.
Bodies ==
  { [amount |-> a, currency |-> c, metadata |-> m, present |-> TRUE] :
      a \in Amounts, c \in Currencies, m \in Metadatas }

\* What the external processor answers: a payment intent, or an error.
PaymentIntents ==
  { [id |-> "pi_123", client_secret |-> "secret_abc"],
    [id |-> "pi_456", client_secret |-> "secret_def"] }
StripeErrors ==
  { [type |-> "StripeConnectionError", message |-> "network failure"],
    [type |-> "StripeAuthenticationError", message |-> "Invalid API Key"] }

\* A mutant: the default currency is not applied.
CreateParamsNoDefault(body) ==
  [amount |-> body.amount,
   currency |-> body.currency,
   automatic_payment_methods |-> [enabled |-> TRUE],
   metadata |-> IF body.metadata = Undefined THEN Obj("") ELSE body.metadata]

\* const { amount, currency = 'brl', metadata = {} } = req.body, and the
\* argument of stripe.paymentIntents.create.
CreateParams(body) ==
  [amount |-> body.amount,
   currency |-> IF body.currency = Undefined THEN Str("brl") ELSE body.currency,
   automatic_payment_methods |-> [enabled |-> TRUE],
   metadata |-> IF body.metadata = Undefined THEN Obj("") ELSE body.metadata]

BadRequest ==
  [status |-> 400,
   body |-> [error |-> "Valor invalido",
             message |-> "O valor deve ser maior que zero"]]

\* res.json({client_secret: paymentIntent.client_secret,
\*           payment_intent_id: paymentIntent.id})
Created(paymentIntent) ==
  [status |-> 200,
   body |-> [client_secret |-> paymentIntent.client_secret,
             payment_intent_id |-> paymentIntent.id]]

\* A mutant: the 500 answer carries a fixed text.
InternalErrorFixedText(error) ==
  [status |-> 500,
   body |-> [error |-> "Erro interno", message |-> "Erro interno"]]

\* res.status(500).json({error: 'Erro interno', message: error.message})
InternalError(error) ==
  [status |-> 500,
   body |-> [error |-> "Erro interno", message |-> error.message]]

\* The promise of stripe.paymentIntents.create: pending until it settles.
Pending == [kind |-> "pending"]
Resolved(paymentIntent) == [kind |-> "resolved", value |-> paymentIntent]
Rejected(error) == [kind |-> "rejected", value |-> error]

\* A request arrives; express.json() has parsed its JSON body into req.body.
Arrive(c, body) ==
  /\ cpc[c] = "idle"
  /\ creq' = [creq EXCEPT ![c] = body]
  /\ cpc' = [cpc EXCEPT ![c] = "handler"]
  /\ UNCHANGED <<stripeCalls, settled, cresp, clog, ipVars, webhookVars>>

\* The handler up to its await: validation, then either the 400 answer or
\* the call of stripe.paymentIntents.create.
CreateHandler(c) ==
  /\ cpc[c] = "handler"
  /\ IF InvalidAmount(creq[c].amount)
     THEN /\ cresp' = [cresp EXCEPT ![c] = Append(@, BadRequest)]
          /\ cpc' = [cpc EXCEPT ![c] = "done"]
          /\ UNCHANGED stripeCalls
     ELSE /\ stripeCalls' = [stripeCalls EXCEPT ![c] = Append(@, CreateParams(creq[c]))]
          /\ cpc' = [cpc EXCEPT ![c] = "awaiting"]
          /\ UNCHANGED cresp
  /\ UNCHANGED <<creq, settled, clog, ipVars, webhookVars>>

\* A mutant: a rejected call is issued again.
StripeRejectsRetry(c, error) ==
  /\ cpc[c] = "awaiting"
  /\ Len(stripeCalls[c]) < 2
  /\ stripeCalls' = [stripeCalls EXCEPT ![c] = Append(@, CreateParams(creq[c]))]
  /\ clog' = [clog EXCEPT ![c] = Append(@, error)]
  /\ settled' = [settled EXCEPT ![c] = Rejected(error)]
  /\ UNCHANGED <<creq, cpc, cresp, ipVars, webhookVars>>

\* The awaited call resolves: the handler answers with the pair.
StripeResolves(c, paymentIntent) ==
  /\ cpc[c] = "awaiting"
  /\ cresp' = [cresp EXCEPT ![c] = Append(@, Created(paymentIntent))]
  /\ cpc' = [cpc EXCEPT ![c] = "done"]
  /\ settled' = [settled EXCEPT ![c] = Resolved(paymentIntent)]
  /\ UNCHANGED <<creq, stripeCalls, clog, ipVars, webhookVars>>

\* The awaited call rejects: the catch block logs and answers 500.
StripeRejects(c, error) ==
  /\ cpc[c] = "awaiting"
  /\ clog' = [clog EXCEPT ![c] = Append(@, error)]
  /\ cresp' = [cresp EXCEPT ![c] = Append(@, InternalError(error))]
  /\ cpc' = [cpc EXCEPT ![c] = "done"]
  /\ settled' = [settled EXCEPT ![c] = Rejected(error)]
  /\ UNCHANGED <<creq, stripeCalls, ipVars, webhookVars>>

(***************************************************************************)
(* POST /webhook.  The request body is a JSON text.  Its shape is "object" *)
(* (the event itself, as the processor delivers it) or "wrapped" (an array *)
(* holding the event's JSON text as its one string, as a sender who holds  *)
(* the secret may post it).  A text is what a body, or the string a value  *)
(* coerces to, reads as.                                                   *)
(***************************************************************************)
EventTypes ==
  { "payment_intent.succeeded", "payment_intent.payment_failed", "charge.refunded" }
Events == [type : EventTypes, hasObject : BOOLEAN]
NoEvent == [type |-> "", hasObject |-> FALSE]

JsonText(shape, event) == [form |-> "json", shape |-> shape, event |-> event]
ObjectObjectText == [form |-> "[object Object]", shape |-> "", event |-> NoEvent]

\* req.body, and the payload handed to the verifier.
UndefinedBody == [kind |-> "undefined", shape |-> "", event |-> NoEvent]
EmptyObject == [kind |-> "object", shape |-> "empty", event |-> NoEvent]
Buffer(text) == [kind |-> "buffer", shape |-> text.shape, event |-> text.event]
\* JSON.parse of a JSON text: an event object, or an array of one string.
JSONparse(text) == [kind |-> "object", shape |-> text.shape, event |-> text.event]

\* String(value), as the template `${timestamp}.${payload}` and JSON.parse
\* coerce a payload that is no string: a Buffer decodes to its text, an
\* array of one string to that string, any other object to [object Object].
Coerce(value) ==
  CASE value.kind = "buffer" -> JsonText(value.shape, value.event)
    [] value.kind = "object" /\ value.shape = "wrapped" -> JsonText("object", value.event)
    [] OTHER -> ObjectObjectText

\* The stripe-signature header: absent, unparsable, a well-formed signature of
\* some other content, or a signature of the raw body ("raw") or of the string
\* the parsed body coerces to ("coerced"), either one also with a timestamp
\* outside the tolerance.
SigKinds ==
  { "missing", "malformed", "mismatch", "raw", "rawExpired", "coerced",
    "coercedExpired" }
ContentTypes == { "application/json", "text/plain" }

WebhookRequests ==
  [contentType : ContentTypes, shape : {"object", "wrapped"}, event : Events,
   sig : SigKinds]
NoWebhook ==
  [contentType |-> "", shape |-> "", event |-> NoEvent, sig |-> "missing"]

RawText(r) == JsonText(r.shape, r.event)

\* The content the header's signature was computed over.
SignedContent(r) ==
  CASE r.sig \in {"raw", "rawExpired"} -> RawText(r)
    [] r.sig \in {"coerced", "coercedExpired"} -> Coerce(JSONparse(RawText(r)))
    [] OTHER -> [form |-> "other", shape |-> "", event |-> NoEvent]

\* stripe.webhooks.constructEvent(payload, sig, endpointSecret): the header
\* is parsed, the signature compared with the HMAC of the payload's string,
\* the timestamp checked, and the payload's string parsed as JSON.
constructEvent(payload, r) ==
  CASE payload.kind = "undefined" ->
         [ok |-> FALSE, message |-> "No webhook payload was provided.", event |-> UndefinedBody]
    [] payload.kind # "undefined" /\ r.sig = "missing" ->
         [ok |-> FALSE, message |-> "No stripe-signature header value was provided.",
          event |-> UndefinedBody]
    [] payload.kind # "undefined" /\ r.sig = "malformed" ->
         [ok |-> FALSE, message |-> "Unable to extract timestamp and signatures from header",
          event |-> UndefinedBody]
    [] OTHER ->
         IF SignedContent(r) # Coerce(payload)
         THEN [ok |-> FALSE,
               message |-> IF payload.kind # "buffer"
                           THEN "Webhook payload must be provided as a string or a Buffer"
                           ELSE "No signatures found matching the expected signature for payload",
               event |-> UndefinedBody]
         ELSE IF r.sig \in {"rawExpired", "coercedExpired"}
         THEN [ok |-> FALSE, message |-> "Timestamp outside the tolerance zone",
               event |-> UndefinedBody]
         ELSE IF Coerce(payload).form # "json"
         THEN [ok |-> FALSE, message |-> "Unexpected token o in JSON at position 1",
               event |-> UndefinedBody]
         ELSE [ok |-> TRUE, message |-> "", event |-> JSONparse(Coerce(payload))]

Ack == [status |-> 200, body |-> [received |-> TRUE]]

\* res.status(400).send(`Webhook Error: ${err.message}`)
WebhookError(message) ==
  [status |-> 400, body |-> [prefix |-> "Webhook Error: ", reason |-> message]]

\* The answer of the framework's error handler to an exception the route
\* handler lets escape.
Uncaught(message) == [status |-> 500, body |-> [uncaught |-> message]]

\* The switch on event.type and the acknowledgement after it: the lines
\* logged and the response.  event.data.object.id throws a TypeError when the
\* event carries no data.object; an array has no type field.
Dispatch(event) ==
  LET type == IF event.shape = "object" THEN event.event.type ELSE "undefined"
  IN CASE type = "payment_intent.succeeded" ->
            IF event.event.hasObject
            THEN [log |-> <<[line |-> "Pagamento bem-sucedido", arg |-> "pi_123"]>>,
                  resp |-> Ack]
            ELSE [log |-> <<>>, resp |-> Uncaught("TypeError")]
       [] type = "payment_intent.payment_failed" ->
            IF event.event.hasObject
            THEN [log |-> <<[line |-> "Pagamento falhou", arg |-> "pi_123"]>>,
                  resp |-> Ack]
            ELSE [log |-> <<>>, resp |-> Uncaught("TypeError")]
       [] OTHER ->
            [log |-> <<[line |-> "Evento ignorado", arg |-> type]>>, resp |-> Ack]

\* A request is delivered to the application.
Deliver(r) ==
  /\ wpc = "idle"
  /\ wreq' = r
  /\ wpc' = "json"
  /\ UNCHANGED <<wbody, wparsed, verifierSaw, verified, wresp, wlog,
                 ipVars, createVars>>

\* app.use(express.json()): a body of type application/json not yet parsed
\* is read and parsed into req.body; any other request gets req.body = {}.
ExpressJson ==
  /\ wpc = "json"
  /\ IF wparsed
     THEN UNCHANGED <<wbody, wparsed>>
     ELSE IF wreq.contentType = "application/json"
     THEN /\ wbody' = JSONparse(RawText(wreq))
          /\ wparsed' = TRUE
     ELSE /\ wbody' = IF wbody = UndefinedBody THEN EmptyObject ELSE wbody
          /\ UNCHANGED wparsed
  /\ wpc' = "raw"
  /\ UNCHANGED <<wreq, verifierSaw, verified, wresp, wlog, ipVars, createVars>>

\* express.raw({type: 'application/json'}) on the route: a body already
\* parsed is left alone; otherwise a body of that type is read into a Buffer.
ExpressRaw ==
  /\ wpc = "raw"
  /\ IF wparsed
     THEN UNCHANGED <<wbody, wparsed>>
     ELSE IF wreq.contentType = "application/json"
     THEN /\ wbody' = Buffer(RawText(wreq))
          /\ wparsed' = TRUE
     ELSE /\ wbody' = IF wbody = UndefinedBody THEN EmptyObject ELSE wbody
          /\ UNCHANGED wparsed
  /\ wpc' = "handler"
  /\ UNCHANGED <<wreq, verifierSaw, verified, wresp, wlog, ipVars, createVars>>

\* A mutant: the handler does not return after the 400 answer.
WebhookOutcomeFallThrough(result) ==
  IF result.ok
  THEN Dispatch(result.event)
  ELSE [log |-> <<[line |-> "Webhook Error", arg |-> result.message],
                  [line |-> "Evento ignorado", arg |-> "undefined"]>>,
        resp |-> WebhookError(result.message)]

\* The handler after constructEvent returned or threw.
WebhookOutcome(result) ==
  IF result.ok
  THEN Dispatch(result.event)
  ELSE [log |-> <<[line |-> "Webhook Error", arg |-> result.message]>>,
        resp |-> WebhookError(result.message)]

\* The route handler.
WebhookHandler ==
  /\ wpc = "handler"
  /\ LET result == constructEvent(wbody, wreq)
         outcome == WebhookOutcome(result)
     IN /\ verifierSaw' = wbody
        /\ verified' = IF result.ok THEN "passed" ELSE "failed"
        /\ wlog' = outcome.log
        /\ wresp' = <<outcome.resp>>
  /\ wpc' = "done"
  /\ UNCHANGED <<wreq, wbody, wparsed, ipVars, createVars>>

(***************************************************************************)
(* Specifications.                                                         *)
(***************************************************************************)
InitIP ==
  /\ localIP = Unset
  /\ healthIP = Unset
InitCreate ==
  /\ creq = [c \in Conns |-> NoReq]
  /\ cpc = [c \in Conns |-> "idle"]
  /\ stripeCalls = [c \in Conns |-> <<>>]
  /\ settled = [c \in Conns |-> Pending]
  /\ cresp = [c \in Conns |-> <<>>]
  /\ clog = [c \in Conns |-> <<>>]
InitWebhook ==
  /\ wreq = NoWebhook
  /\ wpc = "idle"
  /\ wbody = UndefinedBody
  /\ wparsed = FALSE
  /\ verifierSaw = UndefinedBody
  /\ verified = "none"
  /\ wresp = <<>>
  /\ wlog = <<>>

Init == interfaces = <<>> /\ InitIP /\ InitCreate /\ InitWebhook
\* The host's interface table is any of the bounded tables.
InitTables == interfaces \in InterfaceTables /\ InitIP /\ InitCreate /\ InitWebhook

NextIP == Startup \/ Health
NextCreate ==
  \E c \in Conns :
    \/ \E body \in Bodies : Arrive(c, body)
    \/ CreateHandler(c)
    \/ \E paymentIntent \in PaymentIntents : StripeResolves(c, paymentIntent)
    \/ \E error \in StripeErrors : StripeRejects(c, error)
NextWebhook ==
  \/ \E r \in WebhookRequests : Deliver(r)
  \/ ExpressJson
  \/ ExpressRaw
  \/ WebhookHandler

\* getLocalIP at startup, over every bounded interface table.
SpecIP == InitTables /\ [][NextIP]_vars
\* Concurrent requests on /create-payment-intent.
SpecCreate == Init /\ [][NextCreate]_vars
\* A request on /webhook through the middleware chain.
SpecWebhook == Init /\ [][NextWebhook]_vars

(***************************************************************************)
(* Claims about getLocalIP (SpecIP).                                       *)
(***************************************************************************)
\* The addresses of the table in enumeration order, each with its interface.
RECURSIVE Enumerate(_)
Enumerate(table) ==
  IF table = <<>> THEN <<>>
  ELSE [j \in 1..Len(Head(table).addrs) |->
          [name |-> Head(table).name, addr |-> Head(table).addrs[j]]]
       \o Enumerate(Tail(table))

\* An address survives filtering: IPv4, not internal, its interface name
\* holding no denylisted fragment whatever the case, its address starting
\* with no denylisted prefix.
Survives(e) ==
  /\ e.addr.family = "IPv4"
  /\ e.addr.internal = FALSE
  /\ \A p \in 1..Len(ignorePatterns) : ~includes(toLowerCase(e.name), ignorePatterns[p])
  /\ \A p \in 1..Len(ignoreIPs) : ~startsWith(e.addr.address, ignoreIPs[p])

Survivors(table) ==
  {k \in 1..Len(Enumerate(table)) : Survives(Enumerate(table)[k])}

\* The priority the claim assigns: 10 on the main subnet, else 5 for a name
\* containing 'ethernet', else 1.
AssignedPriority(e) ==
  IF SubSeq(e.addr.address, 1, 3) = <<"192","168","0">> THEN 10
  ELSE IF includes(toLowerCase(e.name), ethernetPattern) THEN 5
  ELSE 1

\* C8: getLocalIP returns 'localhost' exactly when no address survives
\* filtering, and a string other than 'localhost' when one does.
C8_LocalhostIffNoSurvivor ==
  localIP # Unset =>
    ((localIP = localhost) <=> (Survivors(interfaces) = {}))

\* A table with interfaces and addresses, all filtered out, resolved to
\* 'localhost'.
C8_Witness ==
  /\ localIP = localhost
  /\ Len(Enumerate(interfaces)) = 2
  /\ \E k \in 1..2 : Enumerate(interfaces)[k].addr.internal

\* C9: the address returned is that of the first survivor, in enumeration
\* order, among the survivors of maximum assigned priority.
C9_FirstOfMaxPriority ==
  (localIP # Unset /\ Survivors(interfaces) # {}) =>
    \E k \in Survivors(interfaces) :
      LET e == Enumerate(interfaces)
      IN /\ localIP = e[k].addr.address
         /\ \A m \in Survivors(interfaces) :
              /\ AssignedPriority(e[m]) <= AssignedPriority(e[k])
              /\ AssignedPriority(e[m]) = AssignedPriority(e[k]) => k <= m

\* Two survivors of equal priority and different addresses, after one of
\* lower rank in the table: the first of the two is returned.
C9_Witness ==
  /\ localIP # Unset
  /\ Cardinality(Survivors(interfaces)) = 2
  /\ LET e == Enumerate(interfaces)
     IN /\ AssignedPriority(e[1]) = AssignedPriority(e[2])
        /\ e[1].addr.address # e[2].addr.address
        /\ localIP = e[1].addr.address

(***************************************************************************)
(* Claims about POST /create-payment-intent (SpecCreate).                  *)
(***************************************************************************)
\* The handler has run for the request on connection c.
Handled(c) == cpc[c] \in {"awaiting", "done"}

\* The amount is absent, zero or negative.
AbsentZeroOrNegative(amount) ==
  \/ amount.t = "undefined"
  \/ amount.t = "number" /\ amount.n <= 0

\* C1: a request whose amount is absent, zero or negative is answered 400
\* with an error field, and the processor is never called for it.
C1_InvalidAmountIs400 ==
  \A c \in Conns :
    (creq[c].present /\ AbsentZeroOrNegative(creq[c].amount)) =>
      /\ stripeCalls[c] = <<>>
      /\ Handled(c) =>
           /\ cpc[c] = "done"
           /\ Len(cresp[c]) = 1
           /\ cresp[c][1].status = 400
           /\ "error" \in DOMAIN cresp[c][1].body

C1_Witness ==
  \E c \in Conns :
    /\ cpc[c] = "done"
    /\ creq[c].amount = Num(-5, 1)
    /\ cresp[c][1].status = 400

\* C5: when the processor's create call succeeds the answer is 200 with
\* exactly client_secret and payment_intent_id as the processor returned
\* them, and the call carried the request's amount, its currency or 'brl',
\* its metadata or an empty mapping, and automatic payment methods enabled.
C5_SuccessEchoesProcessor ==
  \A c \in Conns :
    settled[c].kind = "resolved" =>
      /\ cresp[c] = <<[status |-> 200,
                       body |-> [client_secret |-> settled[c].value.client_secret,
                                 payment_intent_id |-> settled[c].value.id]]>>
      /\ DOMAIN cresp[c][1].body = {"client_secret", "payment_intent_id"}
      /\ Len(stripeCalls[c]) = 1
      /\ stripeCalls[c][1].amount = creq[c].amount
      /\ stripeCalls[c][1].currency =
           (IF creq[c].currency.t = "undefined" THEN Str("brl") ELSE creq[c].currency)
      /\ stripeCalls[c][1].metadata =
           (IF creq[c].metadata.t = "undefined" THEN Obj("") ELSE creq[c].metadata)
      /\ stripeCalls[c][1].automatic_payment_methods = [enabled |-> TRUE]

C5_Witness ==
  \E c \in Conns :
    /\ settled[c] = Resolved([id |-> "pi_123", client_secret |-> "secret_abc"])
    /\ creq[c].amount = Num(1000, 1)
    /\ creq[c].currency.t = "undefined"
    /\ cresp[c][1].status = 200

\* C6: when the processor's create call raises an error the answer is 500
\* with the error's message, whatever the error's subtype.
C6_FailureIs500WithMessage ==
  \A c \in Conns :
    settled[c].kind = "rejected" =>
      cresp[c] = <<[status |-> 500,
                    body |-> [error |-> "Erro interno",
                              message |-> settled[c].value.message]]>>

C6_Witness ==
  \E c \in Conns :
    /\ settled[c].kind = "rejected"
    /\ settled[c].value.type = "StripeAuthenticationError"
    /\ cresp[c][1].body.message = "Invalid API Key"

\* C7: the amount of every call of the processor is a positive integer.
C7_AmountIsPositiveInteger ==
  \A c \in Conns :
    \A i \in 1..Len(stripeCalls[c]) : IsPositiveInteger(stripeCalls[c][i].amount)

\* The answer a request's own body and its own call's outcome determine.
OwnAnswer(body, outcome) ==
  CASE outcome.kind = "resolved" ->
         [status |-> 200,
          body |-> [client_secret |-> outcome.value.client_secret,
                    payment_intent_id |-> outcome.value.id]]
    [] outcome.kind = "rejected" ->
         [status |-> 500,
          body |-> [error |-> "Erro interno", message |-> outcome.value.message]]
    [] OTHER ->
         [status |-> 400,
          body |-> [error |-> "Valor invalido",
                    message |-> "O valor deve ser maior que zero"]]

\* C10: under every interleaving a request calls the processor at most
\* once, is answered at most once and exactly once when it is done, and its
\* answer is the one its own body and its own call's outcome determine.
C10_RequestsAreIndependent ==
  \A c \in Conns :
    /\ Len(stripeCalls[c]) <= 1
    /\ Len(cresp[c]) <= 1
    /\ cpc[c] = "done" =>
         /\ Len(cresp[c]) = 1
         /\ cresp[c][1] = OwnAnswer(creq[c], settled[c])
         /\ (settled[c].kind = "pending") = (stripeCalls[c] = <<>>)

\* One request is answered while another, with another body, is suspended
\* on its call.
C10_Witness ==
  \E c, e \in Conns :
    /\ cpc[c] = "awaiting"
    /\ cpc[e] = "done"
    /\ settled[e].kind = "resolved"
    /\ creq[c] # creq[e]
    /\ Len(cresp[e]) = 1

(***************************************************************************)
(* Claims about POST /webhook (SpecWebhook).                               *)
(***************************************************************************)
DispatchLines == { "Pagamento bem-sucedido", "Pagamento falhou", "Evento ignorado" }

\* C2: a payment_intent.succeeded event delivered as application/json with a
\* signature valid for its raw body reaches the verifier as raw bytes,
\* passes verification, has its intent id logged and is acknowledged.
C2_ValidDeliveryIsAcknowledged ==
  ( /\ wpc = "done"
    /\ wreq.contentType = "application/json"
    /\ wreq.shape = "object"
    /\ wreq.sig = "raw"
    /\ wreq.event = [type |-> "payment_intent.succeeded", hasObject |-> TRUE] ) =>
    /\ verifierSaw.kind = "buffer"
    /\ verified = "passed"
    /\ wlog = <<[line |-> "Pagamento bem-sucedido", arg |-> "pi_123"]>>
    /\ wresp = <<Ack>>

\* C3: a request whose verification fails is answered 400 with
\* 'Webhook Error: ' and the verifier's reason, no dispatch line is logged
\* and no acknowledgement sent.
C3_FailedVerificationIs400 ==
  verified = "failed" =>
    /\ wresp = <<[status |-> 400,
                  body |-> [prefix |-> "Webhook Error: ",
                            reason |-> constructEvent(verifierSaw, wreq).message]]>>
    /\ constructEvent(verifierSaw, wreq).message # ""
    /\ \A i \in 1..Len(wlog) : wlog[i].line \notin DispatchLines
    /\ \A i \in 1..Len(wresp) : wresp[i] # Ack

C3_Witness ==
  /\ verified = "failed"
  /\ wreq.sig = "mismatch"
  /\ wresp[1].status = 400
  /\ wresp[1].body.reason # ""

\* C4: every event that passes verification is acknowledged, whatever its
\* type and the shape of its data.
C4_VerifiedIsAcknowledged ==
  verified = "passed" => wresp = <<Ack>>

====
